---- MODULE Spec2Model ----
(***************************************************************************)
(* State-machine model of src/ZoomWebSocket.py: the ZoomWebSocket class    *)
(* (credential, scheduler jobs, WebSocket callbacks, event handlers, REST  *)
(* calls) and the __main__ block (signal handler, run).                    *)
(*                                                                         *)
(* Three execution contexts are modelled, as in the program:               *)
(*   - the main thread: run() -> run_forever -> on_open / on_message /     *)
(*     on_error / on_close, and the signal handler graceful_shutdown;      *)
(*   - the scheduler's heartbeat job (send_heartbeat);                     *)
(*   - the scheduler's refresh job (refresh_token).                        *)
(* A thread's step runs from one blocking network call to the next.        *)
(***************************************************************************)
EXTENDS Naturals, Sequences, FiniteSets

(* ------------------------------ bounds -------------------------------- *)

\* Number of tokens the token endpoint hands out in a run.
MaxTokens == 2

\* Number of transport failures (failed connects, closes, errors) in a run.
MaxFailures == 2

\* Number of roster entries; the shipped list has one active entry and two
\* commented out (lines 34-38).
RosterSize == 2

\* Largest participant count the metrics endpoint reports.
MaxCount == 2

\* Number of meeting.started frames for the configured meeting that arrive in
\* a row.
MaxStarted == 2

(* ------------------------- program constants -------------------------- *)

\* meeting_id: str = "83148128109"
meeting_id == "83148128109"

\* Any other meeting of the account.
OtherMeetingId == "70000000001"

\* A content in which payload / object / id is absent.
AbsentId == "<absent>"

\* participants: the (user, phone) tuples called when the meeting starts.
participants == [i \in 1..RosterSize |-> [user |-> i, phone |-> i]]

\* ws.run_forever(reconnect=5): the delay, in seconds, before a reconnect;
\* a value of 0 / None means run_forever returns on the first failure.
reconnect == 5

\* The token "" (get_access_token's failure value).
NoToken == 0

(* ------------------------------ frames -------------------------------- *)

\* A frame, by what json.loads and the key lookups of process_message and
\* the handlers see in it.  Fields a frame kind never reads are "na".
Frame(outer, module, success, content, event, id, user, topic) ==
    [outer |-> outer, module |-> module, success |-> success,
     content |-> content, event |-> event, id |-> id,
     user |-> user, topic |-> topic]

Frames ==
    \* not JSON at all; JSON that is no object (j.get raises)
    { Frame(o, "na", "na", "na", "na", "na", FALSE, FALSE) :
        o \in {"badjson", "nondict"} }
    \cup
    \* heartbeat responses, and frames of another module
    { Frame("dict", "heartbeat", s, "na", "na", "na", FALSE, FALSE) :
        s \in {"true", "false"} }
    \cup
    { Frame("dict", "other", "na", "na", "na", "na", FALSE, FALSE) }
    \cup
    \* message frames whose content is absent, not JSON, or no object
    { Frame("dict", "message", "na", c, "na", "na", FALSE, FALSE) :
        c \in {"absent", "badjson", "nondict"} }
    \cup
    \* message frames whose content is an object, by the keys its handler reads
    { Frame("dict", "message", "na", "dict", "unknown", "na", FALSE, FALSE) }
    \cup
    { Frame("dict", "message", "na", "dict", e, i, FALSE, FALSE) :
        e \in {"meeting.started", "meeting.ended"},
        i \in {meeting_id, OtherMeetingId, AbsentId} }
    \cup
    { Frame("dict", "message", "na", "dict", "meeting.participant_joined",
            "na", u, t) : u \in BOOLEAN, t \in BOOLEAN }
    \cup
    { Frame("dict", "message", "na", "dict", "meeting.participant_left",
            i, u, t) :
        i \in {meeting_id, OtherMeetingId, AbsentId},
        u \in BOOLEAN, t \in BOOLEAN }

NoFrame == Frame("none", "na", "na", "na", "na", "na", FALSE, FALSE)

\* No value: get_meeting_details has not returned for the frame.
NoDetails == [t |-> "none", d |-> {}]

(* ------------------------------- state -------------------------------- *)

VARIABLES
    ACCESS_TOKEN,           \* self.ACCESS_TOKEN (NoToken is "")
    access_token_expires,   \* self.access_token_expires, as the number of the
                            \* token exchange that set it (0: never set)
    issued,                 \* exchanges the token endpoint has answered with 200
    scheduler,              \* self.scheduler: "running" | "stopped"
    hb,                     \* heartbeat job: "idle" | "running"
    last_heartbeat,         \* what the send_heartbeat that last ended did
    rf,                     \* refresh job: its position, the outcome of its
                            \* token exchange, and new_token
    conn,                   \* run()/run_forever's position
    url_token,              \* the token in the WebSocketApp's url
    has_ws,                 \* hasattr(self, 'ws')
    close_requested,        \* self.ws.close() was called
    attempts,               \* connect attempts made by run_forever
    failures,               \* transport failures seen by run_forever
    frame,                  \* the frame process_message was last called with
    mpc,                    \* main thread inside process_message: the REST
                            \* call it waits in, or "idle"
    idx,                    \* position of the place_call loop in participants
    calls,                  \* REST calls issued for `frame`, in order
    results,                \* what each call that has ended raised ("none":
                            \* it returned), or the kind of metrics answer
    details,                \* what get_meeting_details returned for `frame`
    raised,                 \* process_message let an exception out
    started_seen,           \* meeting.started frames for the configured
                            \* meeting handed to process_message in a row,
                            \* `frame` being the last (0: it is another)
    invites_issued,         \* place_call requests issued for them
    shutdown_in             \* the position of run() when graceful_shutdown
                            \* ran (sys.exit(0)), "none" before

vars == <<ACCESS_TOKEN, access_token_expires, issued, scheduler, hb,
          last_heartbeat, rf, conn, url_token, has_ws, close_requested,
          attempts, failures, frame, mpc, idx, calls, results,
          details, raised, started_seen, invites_issued, shutdown_in>>

credVars == <<ACCESS_TOKEN, access_token_expires, issued>>
jobVars  == <<scheduler, hb, last_heartbeat, rf>>
connVars == <<conn, url_token, has_ws, close_requested, attempts, failures>>
msgVars  == <<frame, mpc, idx, calls, results, details, raised,
              started_seen, invites_issued>>

\* The process has been told to stop.
exited == shutdown_in # "none"

(* --------------------------- exceptions ------------------------------- *)

\* The exception classes the modelled statements raise.  All but SystemExit
\* derive from Exception; requests' JSONDecodeError, ConnectionError, Timeout
\* and HTTPError derive from RequestException.
RequestExceptions == {"ConnectionError", "HTTPError", "JSONDecodeError"}

Exceptions == RequestExceptions \cup
              {"KeyError", "AttributeError", "WebSocketConnectionClosedException"}

\* `except Exception as e`
ExceptException(e) == e \in Exceptions

\* `except requests.exceptions.RequestException as e`
ExceptRequestException(e) == e \in RequestExceptions

(* --------------------------- credential ------------------------------- *)

\* What the token endpoint can answer to the POST of get_access_token: 200
\* with a token, 200 without one, or a RequestException (no answer within the
\* timeout, or raise_for_status on another status).
TokenOutcomes == {"ok", "notoken", "HTTPError"}

\* get_access_token, lines 85-94: the value returned for an outcome, when the
\* endpoint has answered `n` exchanges before.  A 200 whose body has no
\* access_token gives json_response.get("access_token", "") = "".
get_access_token(outcome, n) ==
    IF outcome = "ok" THEN n + 1 ELSE NoToken

\* get_access_token, line 87: the expiry is set once raise_for_status and
\* response.json() have passed, before the token is looked up.
SetsExpiry(outcome) == outcome \in {"ok", "notoken"}

\* refresh_token, lines 100-104, without the `if new_token` test.
StoredToken_unconditional(new_token, old) == new_token

\* refresh_token, lines 100-104: the value of ACCESS_TOKEN after the refresh.
StoredToken(new_token, old) ==
    IF new_token # NoToken THEN new_token ELSE old

\* The refresh job between two runs.
RefreshIdle == [pc |-> "idle", outcome |-> "none", new_token |-> NoToken]

(* --------------------------- initial state ---------------------------- *)

\* __init__, lines 40-64: the first get_access_token (any outcome), then the
\* scheduler is started with both jobs.  run() has not been called.
Init ==
    /\ \E o \in TokenOutcomes :
         /\ ACCESS_TOKEN = get_access_token(o, 0)
         /\ issued = IF SetsExpiry(o) THEN 1 ELSE 0
         /\ access_token_expires = IF SetsExpiry(o) THEN 1 ELSE 0
    /\ scheduler = "running"
    /\ hb = "idle"
    /\ last_heartbeat = "none"
    /\ rf = RefreshIdle
    /\ conn = "disconnected"
    /\ url_token = NoToken
    /\ has_ws = FALSE
    /\ close_requested = FALSE
    /\ attempts = 0
    /\ failures = 0
    /\ frame = NoFrame
    /\ mpc = "idle"
    /\ idx = 0
    /\ calls = <<>>
    /\ results = <<>>
    /\ details = NoDetails
    /\ raised = FALSE
    /\ started_seen = 0
    /\ invites_issued = 0
    /\ shutdown_in = "none"

(* ---------------------------- scheduler ------------------------------- *)

\* A scheduler whose jobs are run by the main thread between two frames.
JobsCanRun_mainthread == scheduler = "running" /\ mpc = "idle"

\* BackgroundScheduler, lines 61-64: the jobs run on the scheduler's own
\* threads, whatever the main thread is doing, for as long as it is running.
JobsCanRun == scheduler = "running"

(* --------------------------- refresh job ------------------------------ *)

\* The scheduler fires refresh_token (interval job, one instance at a time):
\* lines 96-99 up to the POST of get_access_token.
RefreshTick ==
    /\ JobsCanRun
    /\ rf.pc = "idle"
    /\ rf' = [RefreshIdle EXCEPT !.pc = "acquiring"]
    /\ UNCHANGED <<credVars, scheduler, hb, last_heartbeat, connVars, msgVars,
                   shutdown_in>>

\* The POST returns: get_access_token lines 85-94 run to their return.
AcquireReturn(outcome) ==
    /\ rf.pc = "acquiring"
    /\ SetsExpiry(outcome) => issued < MaxTokens
    /\ issued' = IF SetsExpiry(outcome) THEN issued + 1 ELSE issued
    /\ access_token_expires' =
         IF SetsExpiry(outcome) THEN issued + 1 ELSE access_token_expires
    /\ rf' = IF outcome \in {"ok", "notoken"} \/ ExceptRequestException(outcome)
             THEN [rf EXCEPT !.pc = "store", !.outcome = outcome,
                             !.new_token = get_access_token(outcome, issued)]
             ELSE RefreshIdle
    /\ UNCHANGED <<ACCESS_TOKEN, scheduler, hb, last_heartbeat, connVars,
                   msgVars, shutdown_in>>

\* refresh_token lines 100-104.
RefreshStore ==
    /\ rf.pc = "store"
    /\ ACCESS_TOKEN' = StoredToken(rf.new_token, ACCESS_TOKEN)
    /\ rf' = RefreshIdle
    /\ UNCHANGED <<access_token_expires, issued, scheduler, hb,
                   last_heartbeat, connVars, msgVars, shutdown_in>>

(* -------------------------- heartbeat job ----------------------------- *)

\* The scheduler fires send_heartbeat (interval job).
HeartbeatTick ==
    /\ JobsCanRun
    /\ hb = "idle"
    /\ hb' = "running"
    /\ last_heartbeat' = "none"
    /\ UNCHANGED <<credVars, scheduler, rf, connVars, msgVars, shutdown_in>>

\* The transport of self.ws is connected.
SocketConnected == conn = "open" /\ ~close_requested

\* send_heartbeat, with the send outside any try.
HeartbeatExcept_none(e) == FALSE

\* send_heartbeat, line 114.
HeartbeatExcept(e) == ExceptException(e)

\* send_heartbeat lines 108-115: self.ws.send raises when the socket is not
\* connected, and the except clause logs it.
send_heartbeat ==
    IF ~has_ws THEN "warned"
    ELSE IF SocketConnected THEN "sent"
    ELSE IF HeartbeatExcept("WebSocketConnectionClosedException") THEN "error"
    ELSE "raised"

HeartbeatRun ==
    /\ hb = "running"
    /\ last_heartbeat' = send_heartbeat
    /\ hb' = "idle"
    /\ UNCHANGED <<credVars, scheduler, rf, connVars, msgVars, shutdown_in>>

(* ---------------------------- connection ------------------------------ *)

\* run, lines 379-385: the WebSocketApp is built once, its url holding the
\* token that is current now; run_forever then makes the first attempt.
Run ==
    /\ ~exited
    /\ conn = "disconnected"
    /\ url_token' = ACCESS_TOKEN
    /\ conn' = "connecting"
    /\ attempts' = 1
    /\ UNCHANGED <<credVars, jobVars, has_ws, close_requested, failures,
                   msgVars, shutdown_in>>

\* on_open, lines 242-246.
on_open ==
    /\ conn = "connecting"
    /\ conn' = "open"
    /\ has_ws' = TRUE
    /\ UNCHANGED <<credVars, jobVars, url_token, close_requested, attempts,
                   failures, msgVars, shutdown_in>>

\* run_forever(reconnect=...), line 387: where a transport failure leaves the
\* loop.  With a delay it waits and reconnects; without, run_forever returns.
AfterFailure_noreconnect == "stopped"

AfterFailure == IF reconnect # 0 THEN "backoff" ELSE "stopped"

\* on_error / on_close, with the periodic jobs cancelled on the way.
SchedulerAfterFailure_cancelled == "stopped"

\* on_error (lines 231-235) and on_close (lines 237-240) print and log: the
\* scheduler is as it was.
SchedulerAfterFailure == scheduler

\* A connect attempt fails: on_error is called.
ConnectFail ==
    /\ conn = "connecting"
    /\ failures < MaxFailures
    /\ failures' = failures + 1
    /\ conn' = AfterFailure
    /\ scheduler' = SchedulerAfterFailure
    /\ UNCHANGED <<credVars, hb, last_heartbeat, rf, url_token, has_ws, close_requested,
                   attempts, msgVars, shutdown_in>>

\* The open transport closes or errors while run_forever reads: on_close or
\* on_error is called.
TransportFail(kind) ==
    /\ conn = "open"
    /\ mpc = "idle"
    /\ kind \in {"close", "error"}
    /\ failures < MaxFailures
    /\ failures' = failures + 1
    /\ conn' = AfterFailure
    /\ scheduler' = SchedulerAfterFailure
    /\ UNCHANGED <<credVars, hb, last_heartbeat, rf, url_token, has_ws,
                   close_requested, attempts, msgVars,
                   shutdown_in>>

\* The reconnect delay has passed: run_forever connects again, to the url
\* the WebSocketApp was built with.
Reconnect ==
    /\ conn = "backoff"
    /\ conn' = "connecting"
    /\ attempts' = attempts + 1
    /\ UNCHANGED <<credVars, jobVars, url_token, has_ws, close_requested,
                   failures, msgVars, shutdown_in>>

(* ----------------------------- shutdown ------------------------------- *)

\* shutdown, lines 363-365, with the scheduler left running.
ShutdownScheduler_forgotten == scheduler

\* shutdown, lines 363-365: self.scheduler.shutdown(wait=False).
ShutdownScheduler == "stopped"

\* graceful_shutdown, line 400: sys.exit(0) ends run_forever and run().
ConnAfterExit == "disconnected"

\* graceful_shutdown, lines 395-400, run by the main thread wherever it is:
\* shutdown() (lines 360-372), then sys.exit(0), which no `except Exception`
\* on the way out of run_forever and run catches.  Jobs already running end
\* on their own; the main thread's frame and locals are gone.
graceful_shutdown ==
    /\ ~exited
    /\ conn # "stopped"
    /\ scheduler' = ShutdownScheduler
    /\ close_requested' = has_ws
    /\ conn' = ConnAfterExit
    /\ mpc' = IF mpc = "idle" THEN "idle" ELSE "killed"
    /\ shutdown_in' = conn
    /\ frame' = NoFrame
    /\ idx' = 0
    /\ calls' = << >>
    /\ results' = << >>
    /\ details' = NoDetails
    /\ raised' = FALSE
    /\ started_seen' = 0
    /\ invites_issued' = 0
    /\ UNCHANGED <<credVars, hb, last_heartbeat, rf, url_token, has_ws,
                   attempts, failures>>

(* ------------------------ inbound frames ------------------------------ *)

\* JSON values as the handlers use them: an object is its set of
\* <<key, value>> pairs.
Dict(pairs) == [t |-> "dict", d |-> pairs]

NonDict == [t |-> "list", d |-> {}]

\* dict.get(key, default)
DictGet(dict, key, default) ==
    IF \E p \in dict.d : p[1] = key
    THEN (CHOOSE p \in dict.d : p[1] = key)[2]
    ELSE default

\* process_message, lines 124-131: json.loads(message), then j.get('module').
OuterFault(f) ==
    CASE f.outer = "badjson" -> "JSONDecodeError"
      [] f.outer = "nondict" -> "AttributeError"
      [] OTHER -> "none"

\* process_message, lines 134-139: j['content'], then json.loads of it.
ContentFault(f) ==
    CASE f.content = "absent"  -> "KeyError"
      [] f.content = "badjson" -> "JSONDecodeError"
      [] OTHER -> "none"

\* process_message, line 142: content.get('event') on a content that is no
\* object.
EventFault(f) == IF f.content = "nondict" THEN "AttributeError" ELSE "none"

\* The key lookups at the head of each handler (lines 165-167, 187, 201-202,
\* 216): a KeyError when a key the handler reads is absent.
HandlerFault(f) ==
    CASE f.event = "meeting.participant_left" ->
           IF f.id = AbsentId \/ ~f.user \/ ~f.topic THEN "KeyError" ELSE "none"
      [] f.event = "meeting.participant_joined" ->
           IF ~f.user \/ ~f.topic THEN "KeyError" ELSE "none"
      [] f.event \in {"meeting.started", "meeting.ended"} ->
           IF f.id = AbsentId THEN "KeyError" ELSE "none"
      [] OTHER -> "none"

\* The except clauses of process_message (lines 129, 137, 151) and of the
\* four handlers (lines 176, 190, 205, 224).
OuterExcept_ValueError(e) == e = "JSONDecodeError"

OuterExcept(e) == ExceptException(e)

ContentExcept(e) == ExceptException(e)

EventExcept(e) == ExceptException(e)

HandlerExcept(e) == ExceptException(e)

\* `if meeting == self.meeting_id`, lines 168 and 219, with the test dropped.
MeetingMatches_any(meeting) == TRUE

\* `if meeting == self.meeting_id`, lines 168 and 219.
MeetingMatches(meeting) == meeting = meeting_id

\* The handlers and the dispatch without their try / except.
Escapes_uncaught(e) == e # "none"

\* A handler let `e` out: it passed the handler's own except clause and the
\* one of process_message around the dispatch.
Escapes(e) == e # "none" /\ ~HandlerExcept(e) /\ ~EventExcept(e)

\* A heartbeat response that makes process_message look at the meeting.
HeartbeatResponseCall_metrics == "get_meeting_details"

\* process_message, lines 153-155: a heartbeat response is logged and
\* printed; no call follows.
HeartbeatResponseCall == "none"

\* A handler that remembers the meetings it has invited the roster to.
AlreadyInvited_remembered == started_seen > 0

\* process_meeting_started_event, lines 208-225: the handler keeps no record
\* of the frames it has seen.
AlreadyInvited == FALSE

\* process_message (lines 117-155) and the handler it dispatches to, up to the
\* first REST call: the call the main thread enters, and whether an exception
\* left process_message.
Dispatch(f) ==
    IF OuterFault(f) # "none"
    THEN [call |-> "none", raised |-> ~OuterExcept(OuterFault(f))]
    ELSE IF f.module = "heartbeat"
    THEN [call |-> HeartbeatResponseCall, raised |-> FALSE]
    ELSE IF f.module # "message"
    THEN [call |-> "none", raised |-> FALSE]
    ELSE IF ContentFault(f) # "none"
    THEN [call |-> "none", raised |-> ~ContentExcept(ContentFault(f))]
    ELSE IF EventFault(f) # "none"
    THEN [call |-> "none", raised |-> ~EventExcept(EventFault(f))]
    ELSE IF HandlerFault(f) # "none"
    THEN [call |-> "none", raised |-> Escapes(HandlerFault(f))]
    ELSE IF f.event = "meeting.participant_left" /\ MeetingMatches(f.id)
    THEN [call |-> "get_meeting_details", raised |-> FALSE]
    ELSE IF f.event = "meeting.started" /\ MeetingMatches(f.id)
              /\ ~AlreadyInvited /\ Len(participants) > 0
    THEN [call |-> "place_call", raised |-> FALSE]
    ELSE [call |-> "none", raised |-> FALSE]

\* A REST call whose headers hold the token run() started with.
Call_cached(op, meeting, entry) ==
    [op |-> op, meeting |-> meeting, entry |-> entry, token |-> url_token]

\* A REST call as it leaves: the operation, the meeting in its url, the
\* roster entry it invites (0: none) and the token in its authorization
\* header, read when the call is made (lines 268-272, 291-294, 317-320).
Call(op, meeting, entry) ==
    [op |-> op, meeting |-> meeting, entry |-> entry, token |-> ACCESS_TOKEN]

\* A meeting.started frame for the configured meeting.
IsTargetStarted(f) == f.event = "meeting.started" /\ f.id = meeting_id

\* on_message handing each frame to a thread of its own.
CanDispatch_threaded == mpc # "killed"

\* on_message, lines 227-229: process_message is called on the thread that
\* reads the transport, which reads the next frame when it has returned.
CanDispatch == mpc = "idle"

\* on_message -> process_message(message), lines 227-229 and 117-155: the
\* main thread, reading an open transport, is handed frame f.
on_message(f) ==
    /\ conn = "open"
    /\ CanDispatch
    /\ ~exited
    /\ IsTargetStarted(f) => started_seen < MaxStarted
    /\ started_seen' = IF IsTargetStarted(f) THEN started_seen + 1 ELSE 0
    /\ frame' = f
    /\ details' = NoDetails
    /\ raised' = Dispatch(f).raised
    /\ LET call == Dispatch(f).call IN
         /\ mpc' = IF call = "none" THEN "idle" ELSE call
         /\ idx' = IF call = "place_call" THEN 1 ELSE 0
         /\ invites_issued' =
              (IF IsTargetStarted(f) THEN invites_issued ELSE 0)
              + (IF call = "place_call" THEN 1 ELSE 0)
         /\ calls' =
              CASE call = "place_call" ->
                     \* line 223: place_call(meeting, user, phone)
                     << Call("place_call", f.id, 1) >>
                [] call = "get_meeting_details" ->
                     \* line 171: get_meeting_details(self.meeting_id)
                     << Call("get_meeting_details", meeting_id, 0) >>
                [] OTHER -> << >>
    /\ results' = << >>
    /\ UNCHANGED <<credVars, jobVars, connVars, shutdown_in>>

(* ---------------------------- REST calls ------------------------------ *)

\* What the platform can answer to a REST call: a status with a body, or the
\* request raising.
RestOutcomes == {"ok", "error", "ConnectionError"}

RestFault(outcome) ==
    IF outcome \in Exceptions THEN outcome ELSE "none"

\* place_call, lines 273-279, with the request outside any try.
PlaceCallExcept_none(e) == FALSE

\* place_call, line 278.
PlaceCallExcept(e) == ExceptException(e)

\* The session.patch of place_call returns or raises: place_call ends (lines
\* 275-279) and the loop of process_meeting_started_event (lines 222-223)
\* goes on to the next entry.
PlaceCallReturn(outcome) ==
    /\ mpc = "place_call"
    /\ LET e == RestFault(outcome)
           left == e # "none" /\ ~PlaceCallExcept(e)
       IN  IF left
           THEN /\ mpc' = "idle"
                /\ raised' = Escapes(e)
                /\ UNCHANGED <<idx, calls, invites_issued>>
           ELSE IF idx < Len(participants)
           THEN /\ idx' = idx + 1
                /\ calls' = Append(calls, Call("place_call", frame.id, idx + 1))
                /\ invites_issued' = invites_issued + 1
                /\ UNCHANGED <<mpc, raised>>
           ELSE /\ mpc' = "idle"
                /\ UNCHANGED <<idx, calls, raised, invites_issued>>
    /\ results' = Append(results, RestFault(outcome))
    /\ UNCHANGED <<credVars, jobVars, connVars, frame, details, started_seen,
                   shutdown_in>>

\* What the metrics endpoint can answer: 200 with a participant count; 200
\* with JSON that is no object; another status with the platform's error
\* object; no JSON at all, or no answer.
MetricsOutcomes ==
    { [kind |-> "count", n |-> k] : k \in 0..MaxCount }
    \cup { [kind |-> k, n |-> 0] :
             k \in {"nondict", "non200", "JSONDecodeError", "ConnectionError"} }

\* get_meeting_details, line 302.
DetailsExcept(e) == ExceptException(e)

\* get_meeting_details, lines 295-304: the value returned.  A non-200 answer
\* is logged and its body returned like any other; an exception gives {}.
get_meeting_details(outcome) ==
    CASE outcome.kind = "count"   -> Dict({<<"participants", outcome.n>>})
      [] outcome.kind = "non200"  -> Dict({<<"code", 3001>>})
      [] outcome.kind = "nondict" -> NonDict
      [] OTHER -> Dict({})

\* process_leave_event, line 172: details.get("participants", 0).
participant_count(dict) == DictGet(dict, "participants", 0)

\* process_leave_event, lines 173-175, with the test dropped.
LeaveEndsMeeting_always(count) == TRUE

\* process_leave_event, line 173: `if participant_count == 0`.
LeaveEndsMeeting(count) == count = 0

\* The session.get of get_meeting_details returns or raises: the function
\* ends and process_leave_event goes on (lines 172-175).
MetricsReturn(outcome) ==
    /\ mpc = "get_meeting_details"
    /\ LET e == RestFault(outcome.kind)
           left == e # "none" /\ ~DetailsExcept(e)
           got == get_meeting_details(outcome)
       IN  IF left
           THEN /\ mpc' = "idle"
                /\ raised' = Escapes(e)
                /\ UNCHANGED <<calls, details>>
           ELSE /\ details' = got
                /\ IF got.t # "dict"
                   THEN \* details.get raises AttributeError (line 172)
                        /\ mpc' = "idle"
                        /\ raised' = Escapes("AttributeError")
                        /\ UNCHANGED calls
                   ELSE IF LeaveEndsMeeting(participant_count(got))
                   THEN \* line 175: end_meeting(self.meeting_id)
                        /\ mpc' = "end_meeting"
                        /\ calls' = Append(calls,
                                           Call("end_meeting", meeting_id, 0))
                        /\ UNCHANGED raised
                   ELSE /\ mpc' = "idle"
                        /\ UNCHANGED <<calls, raised>>
    /\ results' = Append(results, outcome.kind)
    /\ UNCHANGED <<credVars, jobVars, connVars, frame, idx, started_seen,
                   invites_issued, shutdown_in>>

\* end_meeting, line 329.
EndExcept(e) == ExceptException(e)

\* The session.put of end_meeting returns or raises: end_meeting ends (lines
\* 324-331) and with it process_leave_event.
EndReturn(outcome) ==
    /\ mpc = "end_meeting"
    /\ LET e == RestFault(outcome)
       IN  raised' = (e # "none" /\ ~EndExcept(e) /\ Escapes(e))
    /\ mpc' = "idle"
    /\ results' = Append(results, RestFault(outcome))
    /\ UNCHANGED <<credVars, jobVars, connVars, frame, idx, calls, details,
                   started_seen, invites_issued, shutdown_in>>

(* -------------------------- specification ----------------------------- *)

Next ==
    \/ RefreshTick
    \/ \E o \in TokenOutcomes : AcquireReturn(o)
    \/ RefreshStore
    \/ HeartbeatTick
    \/ HeartbeatRun
    \/ Run
    \/ on_open
    \/ ConnectFail
    \/ \E k \in {"close", "error"} : TransportFail(k)
    \/ Reconnect
    \/ graceful_shutdown
    \/ \E f \in Frames : on_message(f)
    \/ \E o \in RestOutcomes : PlaceCallReturn(o)
    \/ \E o \in MetricsOutcomes : MetricsReturn(o)
    \/ \E o \in RestOutcomes : EndReturn(o)

Spec == Init /\ [][Next]_vars

(* ------------------------------ claims -------------------------------- *)

\* The number of REST calls of one operation issued for `frame`.
CallCount(op) == Cardinality({i \in DOMAIN calls : calls[i].op = op})

\* process_message has returned for a participant_left frame of the target
\* meeting.
LeftTargetDone ==
    /\ mpc = "idle"
    /\ frame.event = "meeting.participant_left"
    /\ frame.id = meeting_id

\* The metrics fetch made for `frame` answered with participant count n.
ReturnedCount(n) ==
    /\ Len(results) >= 1
    /\ results[1] = "count"
    /\ details = Dict({<<"participants", n>>})

\* One metrics fetch, made first; then one end_meeting if it returned a count
\* of 0, and none if it returned a count above 0.
FetchThenEndOnZero ==
    /\ CallCount("get_meeting_details") = 1
    /\ calls[1].op = "get_meeting_details"
    /\ ReturnedCount(0) =>
         /\ CallCount("end_meeting") = 1
         /\ Len(calls) = 2
         /\ calls[2].op = "end_meeting"
    /\ (\E n \in 1..MaxCount : ReturnedCount(n)) =>
         /\ CallCount("end_meeting") = 0
         /\ Len(calls) = 1

\* C1, as stated: every participant_left frame whose meeting id is the
\* target's makes process_message fetch the metrics once, then end the
\* meeting once on a count of 0 and not at all on a count above 0.
C1_EveryLeaveFrameFetches == LeftTargetDone => FetchThenEndOnZero

\* C1, amended: the same for every participant_left frame of the target
\* meeting that carries participant.user_name and topic, the two keys
\* process_leave_event reads before it compares the meeting id.
C1_LeaveFrameFetchesThenEndsOnZero ==
    (LeftTargetDone /\ frame.user /\ frame.topic) => FetchThenEndOnZero

\* C1 witness: a complete participant_left frame of the target meeting was
\* processed, the fetch returned 0 and end_meeting was called.
C1_Witness ==
    /\ LeftTargetDone
    /\ frame.user /\ frame.topic
    /\ ReturnedCount(0)
    /\ Len(results) = 2

\* C2: end_meeting is called only when the metrics fetch made for the same
\* frame returned a participant count of zero; a fetch that failed (an
\* exception, a non-200 status, a body with no count) ends no meeting.
C2_EndOnlyAfterZeroCount ==
    \A i \in DOMAIN calls :
        calls[i].op = "end_meeting" => ReturnedCount(0)

\* C3: for a meeting.started frame of the target meeting process_message
\* issues one place_call per roster entry, in roster order, whatever the
\* earlier calls answered: the calls made so far are the first entries, and
\* when process_message has returned they are all of them.
C3_InvitesWholeRosterInOrder ==
    (frame.event = "meeting.started" /\ frame.id = meeting_id) =>
        /\ \A i \in DOMAIN calls :
             /\ calls[i].op = "place_call"
             /\ calls[i].entry = i
             /\ calls[i].meeting = meeting_id
        /\ Len(calls) <= Len(participants)
        /\ mpc = "idle" => Len(calls) = Len(participants)

\* C3 witness: the first invite raised and every roster entry was invited
\* all the same.
C3_Witness ==
    /\ frame.event = "meeting.started" /\ frame.id = meeting_id
    /\ mpc = "idle"
    /\ Len(results) = Len(participants)
    /\ results[1] = "ConnectionError"
    /\ Len(calls) = Len(participants)

\* C4: a meeting.started frame of another meeting issues no invite call.
C4_NoInviteForOtherMeeting ==
    (frame.event = "meeting.started" /\ frame.id # meeting_id) =>
        /\ calls = << >>
        /\ mpc = "idle"

\* C4 witness: a meeting.started frame of another meeting was processed.
C4_Witness ==
    /\ frame.event = "meeting.started"
    /\ frame.id = OtherMeetingId
    /\ mpc = "idle"

\* C5: a refresh whose token exchange succeeded stores the token just
\* acquired; a refresh whose exchange failed leaves ACCESS_TOKEN as it was;
\* and nothing else changes ACCESS_TOKEN.
C5_RefreshIdempotentOnFailure ==
    [][ /\ (rf.pc = "store" /\ rf'.pc = "idle") =>
             IF rf.outcome = "ok"
             THEN ACCESS_TOKEN' = issued /\ ACCESS_TOKEN' # NoToken
             ELSE ACCESS_TOKEN' = ACCESS_TOKEN
        /\ ACCESS_TOKEN' # ACCESS_TOKEN =>
             rf.pc = "store" /\ rf.outcome = "ok" ]_vars

\* C5 witness: after a successful refresh (the token is the second one), a
\* refresh whose exchange failed is about to store.
C5_Witness ==
    /\ rf.pc = "store"
    /\ rf.outcome = "HTTPError"
    /\ ACCESS_TOKEN > 1

\* C6: every connect attempt, reconnects included, uses the credential that
\* is current when the attempt is made.
C6_ConnectUsesCurrentToken ==
    [][ attempts' # attempts => url_token' = ACCESS_TOKEN' ]_vars

C8_ReconnectsForever ==
    ~exited =>
        \/ conn = "disconnected" /\ attempts = 0 /\ failures = 0
        \/ conn \in {"connecting", "open"} /\ attempts = failures + 1
        \/ conn = "backoff" /\ attempts = failures /\ ENABLED Reconnect

\* C8 witness: every failure the bound allows has happened and one more
\* attempt is under way.
C8_Witness ==
    /\ ~exited
    /\ failures = MaxFailures
    /\ attempts = MaxFailures + 1
    /\ conn = "connecting"

\* C9: after a shutdown issued while the connection was open the scheduler
\* is stopped, so that no heartbeat and no refresh begins; the close of the
\* transport has been requested; and run() is disconnected and makes no
\* further connect attempt.
C9_ShutdownWhileOpen ==
    shutdown_in = "open" =>
        /\ scheduler = "stopped"
        /\ ~ENABLED HeartbeatTick
        /\ ~ENABLED RefreshTick
        /\ close_requested
        /\ ~SocketConnected
        /\ conn = "disconnected"
        /\ ~ENABLED Run
        /\ ~ENABLED Reconnect
        /\ ~ENABLED on_open

\* C9 witness: shutdown was issued while open, with both jobs idle.
C9_Witness ==
    /\ shutdown_in = "open"
    /\ hb = "idle"
    /\ rf.pc = "idle"

\* Frames that are not JSON or no JSON object, and message frames whose
\* content is absent or not JSON.
MalformedFrames ==
    { f \in Frames :
        \/ f.outer \in {"badjson", "nondict"}
        \/ f.module = "message" /\ f.content \in {"absent", "badjson"} }

\* C10: process_message returns normally from a malformed frame: no
\* exception leaves it, it enters no REST call, and the credential and the
\* connection are as they were.
C10_MalformedFrameDropped ==
    [][ \A f \in MalformedFrames :
          on_message(f) =>
            /\ ~raised'
            /\ mpc' = "idle"
            /\ calls' = << >>
            /\ UNCHANGED <<credVars, connVars>> ]_vars

\* C10 witness: a message frame whose content is not JSON was processed.
C10_Witness ==
    /\ frame \in MalformedFrames
    /\ frame.content = "badjson"
    /\ mpc = "idle"
    /\ ~raised

\* The main thread is inside a REST call made for `frame`.
InRestCall == mpc \in {"place_call", "get_meeting_details", "end_meeting"}

\* C11: every REST call carries the token that is stored when the call is
\* made, so that a call made after a successful refresh carries the new
\* token; the calls made before, the one in flight included, keep theirs.
C11_CallsReadStoredToken ==
    [][ /\ (calls' # calls /\ calls' # << >>) =>
              calls'[Len(calls')].token = ACCESS_TOKEN
        /\ Len(calls') > Len(calls) =>
              SubSeq(calls', 1, Len(calls)) = calls
        /\ ACCESS_TOKEN' # ACCESS_TOKEN => calls' = calls ]_vars

\* C11 witness: a refresh replaced the token between the first invite of a
\* frame and the second, which is in flight with the new token.
C11_Witness ==
    /\ mpc = "place_call"
    /\ Len(calls) = 2
    /\ calls[1].token # calls[2].token
    /\ calls[2].token = ACCESS_TOKEN

\* C12: while the main thread waits in a REST call, both jobs go on: a tick
\* of either can fire, a heartbeat that runs is sent, and a refresh that runs
\* can get its answer and store it.
C12_JobsRunDuringRestCall ==
    InRestCall =>
        /\ hb = "idle" => ENABLED HeartbeatTick
        /\ hb = "running" => ENABLED HeartbeatRun /\ send_heartbeat = "sent"
        /\ rf.pc = "idle" => ENABLED RefreshTick
        /\ rf.pc = "acquiring" => ENABLED AcquireReturn("HTTPError")
        /\ rf.pc = "store" => ENABLED RefreshStore

\* C12 witness: during one metrics fetch that has not returned, a refresh has
\* replaced the token and a heartbeat has been sent.
C12_Witness ==
    /\ mpc = "get_meeting_details"
    /\ calls[1].token # ACCESS_TOKEN
    /\ last_heartbeat = "sent"
    /\ hb = "idle"

\* C13: a heartbeat that runs without a connected handle ends in a logged
\* warning or error: nothing leaves send_heartbeat, the job is ready for its
\* next tick, and the scheduler, the connection and the credential are
\* as they were.
C13_HeartbeatWithoutHandleIsBenign ==
    [][ (hb = "running" /\ hb' = "idle" /\ send_heartbeat # "sent") =>
          /\ last_heartbeat' \in {"warned", "error"}
          /\ UNCHANGED <<scheduler, rf, credVars, connVars, msgVars>> ]_vars

\* C13 witness: a heartbeat ran during a reconnect delay, after an open
\* transport had failed, and logged the error of the send.
C13_Witness ==
    /\ conn = "backoff"
    /\ has_ws
    /\ last_heartbeat = "error"
    /\ hb = "idle"
    /\ ENABLED HeartbeatTick

\* Well-formed heartbeat responses.
HeartbeatFrames ==
    { f \in Frames : f.outer = "dict" /\ f.module = "heartbeat" }

\* C14: a heartbeat response makes no REST call and sends nothing, and leaves
\* the credential, the connection and both jobs as they were.
C14_HeartbeatResponseHasNoEffect ==
    [][ \A f \in HeartbeatFrames :
          on_message(f) =>
            /\ ~raised'
            /\ mpc' = "idle"
            /\ calls' = << >>
            /\ UNCHANGED <<credVars, connVars, jobVars>> ]_vars

\* C14 witness: a heartbeat response reporting failure was processed.
C14_Witness ==
    /\ frame \in HeartbeatFrames
    /\ frame.success = "false"
    /\ mpc = "idle"
    /\ calls = << >>

\* C15: after a shutdown issued while connecting or waiting to reconnect,
\* with no handle recorded, the close of the transport has been requested
\* and no connect attempt can follow.
C15_ShutdownBeforeOpenRequestsClose ==
    (shutdown_in \in {"connecting", "backoff"} /\ ~has_ws) =>
        /\ close_requested
        /\ ~ENABLED Run
        /\ ~ENABLED Reconnect
        /\ ~ENABLED on_open

\* Message frames on which the dispatch or a handler faults.
HandlerFaultFrames ==
    { f \in Frames :
        /\ f.outer = "dict" /\ f.module = "message"
        /\ ContentFault(f) = "none"
        /\ EventFault(f) # "none" \/ HandlerFault(f) # "none" }

\* The handling of `frame` has ended after a fault in it: a fault of the
\* dispatch or the handler, a REST call that raised, or a metrics answer
\* that is no object.
FaultHandled ==
    /\ mpc = "idle"
    /\ \/ frame \in HandlerFaultFrames
       \/ \E i \in DOMAIN results : results[i] \in Exceptions \cup {"nondict"}

\* C16: no step of the frame handling lets an exception out of
\* process_message or changes the connection, and the step that ends the
\* handling of a fault leaves the main thread where on_message takes the
\* next frame.
C16_HandlerFaultContained ==
    [][ (msgVars' # msgVars /\ shutdown_in' = shutdown_in) =>
          /\ ~raised'
          /\ UNCHANGED connVars
          /\ FaultHandled' => (conn = "open" /\ CanDispatch /\ ~exited)' ]_vars

\* C16 witness: a participant_left frame for the target meeting that has no
\* topic was processed, and the connection is open.
C16_Witness ==
    /\ frame.event = "meeting.participant_left"
    /\ frame.id = meeting_id
    /\ ~frame.topic
    /\ FaultHandled
    /\ ~raised
    /\ conn = "open"

\* C17: whenever a token is stored, the stored expiry was set by the token
\* exchange that gave that token.
C17_TokenAndExpiryFromSameAcquire ==
    ACCESS_TOKEN # NoToken => access_token_expires = ACCESS_TOKEN

\* C18: at most one REST call is in flight, it is the last one issued for
\* the frame being handled, and a frame can be handed to process_message
\* only when every call issued for the frame before has returned.
C18_OneFrameAtATime ==
    /\ Len(calls) = Len(results) + (IF InRestCall THEN 1 ELSE 0)
    /\ (\E f \in Frames : ENABLED on_message(f)) => Len(results) = Len(calls)

\* C18 witness: every invite of a meeting.started frame has returned and the
\* next frame can be handed over.
C18_Witness ==
    /\ frame.event = "meeting.started"
    /\ Len(calls) = RosterSize
    /\ Len(results) = RosterSize
    /\ \A f \in Frames : ENABLED on_message(f)

\* C19: every REST call issued is for the configured meeting, and a
\* participant_left frame for another meeting makes no call.
C19_CallsOnlyForTargetMeeting ==
    /\ \A i \in DOMAIN calls : calls[i].meeting = meeting_id
    /\ (frame.event = "meeting.participant_left" /\ frame.id # meeting_id) =>
          calls = << >> /\ mpc = "idle"

\* C19 witness: a complete participant_left frame for another meeting was
\* processed.
C19_Witness ==
    /\ frame.event = "meeting.participant_left"
    /\ frame.id = OtherMeetingId
    /\ frame.user /\ frame.topic
    /\ mpc = "idle"
    /\ conn = "open"

\* C20: a frame that is no meeting.started frame for the configured meeting
\* issues no place_call request; and when such frames are processed in a row,
\* the same one again and again, the place_call requests issued for them
\* number the roster size times the frames processed (less the requests the
\* frame being handled has still to make): none of them is dropped as a
\* duplicate.
C20_InvitesPerStartedFrame ==
    ~exited =>
        /\ ~IsTargetStarted(frame) =>
              started_seen = 0 /\ CallCount("place_call") = 0
        /\ IF mpc = "place_call"
           THEN invites_issued = RosterSize * (started_seen - 1) + Len(calls)
           ELSE invites_issued = RosterSize * started_seen

\* C20 witness: the same meeting.started frame was processed twice in a row
\* and the second round of invitations is complete.
C20_Witness ==
    /\ started_seen = 2
    /\ IsTargetStarted(frame)
    /\ mpc = "idle"
    /\ Len(calls) = RosterSize
    /\ invites_issued = 2 * RosterSize

====
